---- MODULE Spec2Model ----
(***************************************************************************)
(* Model of the container kernel of main.go: the Kernel registry, the      *)
(* Containers with their process lists, the Process state field, the two   *)
(* lock scopes (Kernel.mu, Container.mu) and the goroutines dispatched by   *)
(* StartProcesses.  Caller goroutines invoke the exported operations; one  *)
(* step of the model is one lock-protected section or one unsynchronized    *)
(* memory access of the code.                                              *)
(***************************************************************************)
EXTENDS Integers, Sequences, FiniteSets, TLC

\* ---------------------------------------------------------------- bounds
MaxCalls == 4        \* operations invoked in one run, all callers together
MaxDeepCalls == 5    \* the same, in the longer runs of DeepSpec
MaxContainers == 2   \* Container objects allocated in one run
MaxProcs == 2        \* Process objects allocated in one run
MaxCycles == 2       \* largest `cycles` argument given to Monitor
MaxSimIters == 1     \* iterations of the resource simulator's loop (5 in main)

\* ------------------------------------------------------- program constants
\* ProcessState (iota)
Running == 0
Stopped == 1
Completed == 2

Threads == {"g1", "g2"}          \* caller goroutines
IDs == {"c1", "c2"}               \* container ids the callers use
\* the CreateContainer calls the callers issue (each any number of times)
Requests == { [id |-> "c1", Name |-> "WebServer", MemoryMB |-> 512],
              [id |-> "c2", Name |-> "Database",  MemoryMB |-> 1024] }
Msgs == {"ping"}
\* values the resource simulator draws: rand.Float64() * 100 (kept to whole
\* percents) and rand.Intn(50) - 25, at the ends of their ranges
Samples == { [cpu |-> 0, jitter |-> -25], [cpu |-> 99, jitter |-> 24] }
Nil == 0                          \* nil pointer / absent map key
Free == "free"                    \* an unlocked sync.Mutex

VARIABLES
  Containers,  \* Kernel.Containers: id -> Container reference (Nil: no key)
  kmu,         \* Kernel.mu: Free or the goroutine holding it
  heap,        \* the Container objects allocated so far, by reference
  procs,       \* the Process objects allocated so far, by reference
  tasks,       \* per Process: dispatched goroutines still inside proc.Action()
  th,          \* per caller goroutine: program counter and locals
  calls        \* operations the callers may still invoke

vars == <<Containers, kmu, heap, procs, tasks, th, calls>>

\* ----------------------------------------------------------------- helpers
Range(s) == {s[i] : i \in 1..Len(s)}

\* the Container objects the registry refers to (range over k.Containers)
Registered(reg) == {reg[id] : id \in IDs} \ {Nil}

\* locals of a goroutine that is not inside a call (`wrote`: the processes the
\* current call has set Stopped)
Idle ==
  [pc |-> "idle", op |-> "none", id |-> "", to |-> "", name |-> "", memory |-> 0,
   msg |-> "", c |-> Nil, cycles |-> 0, i |-> 0, iter |-> {}, idx |-> 0, p |-> Nil,
   out |-> <<>>, ret |-> Nil, run |-> {}, comp |-> {}, wrote |-> {},
   dirty |-> FALSE]

\* the processes of container c whose State is s
InState(c, s) == {p \in Range(heap[c].Processes) : procs[p].State = s}

\* a goroutine is inside an operation that has been invoked and has not returned
InCall(u, ops) == th[u].op \in ops /\ th[u].pc \notin {"idle", "ret"}

\* NewKernel(): an empty registry; nothing else exists yet
NewKernel ==
  /\ Containers = [id \in IDs |-> Nil]
  /\ kmu = Free
  /\ heap = <<>>
  /\ procs = <<>>
  /\ tasks = <<>>
  /\ th = [t \in Threads |-> Idle]

Init == NewKernel /\ calls = MaxCalls

\* ------------------------------------------------------------ observations
\* One emitted line (fmt.Printf / fmt.Println), by its format and arguments.
Line(kind, name, to, msg, mem, cpu, active) ==
  [kind |-> kind, name |-> name, to |-> to, msg |-> msg,
   mem |-> mem, cpu |-> cpu, active |-> active]
CreatedLine(name) == Line("created", name, "", "", 0, 0, 0)
StartingLine(name) == Line("starting", name, "", "", 0, 0, 0)
StoppingLine(name) == Line("stopping", name, "", "", 0, 0, 0)
HeaderLine == Line("header", "", "", "", 0, 0, 0)
RowLine(c, active) ==
  Line("row", heap[c].Name, "", "", heap[c].MemoryMB, heap[c].CPULoad, active)
SuccessLine(from, to, msg) == Line("message", heap[from].Name, heap[to].Name, msg, 0, 0, 0)
FailureLine == Line("error", "", "", "", 0, 0, 0)

\* ------------------------------------------------------------- invocation
\* Goroutine t enters an operation with locals loc.  The flag `dirty` of a
\* StopAll call records that an AddProcess or CreateContainer call overlaps it.
Invoke(t, loc) ==
  /\ th[t].pc = "idle"
  /\ calls > 0
  /\ calls' = calls - 1
  /\ th' = [u \in Threads |->
              IF u = t
                THEN [loc EXCEPT !.dirty =
                        /\ loc.op = "StopAll"
                        /\ \E v \in Threads \ {t} :
                             InCall(v, {"AddProcess", "CreateContainer"})]
              ELSE IF /\ loc.op \in {"AddProcess", "CreateContainer"}
                      /\ InCall(u, {"StopAll"})
                THEN [th[u] EXCEPT !.dirty = TRUE]
              ELSE th[u]]
  /\ UNCHANGED <<Containers, kmu, heap, procs, tasks>>

\* the call c.StartProcesses() / c.StopProcesses() begins: `run` and `comp`
\* remember which processes of c were Running / Completed at that moment
Enter(loc, pc, c) ==
  [loc EXCEPT !.pc = pc, !.c = c, !.idx = 0, !.p = Nil,
              !.run = @ \cup InState(c, Running),
              !.comp = @ \cup InState(c, Completed)]

Pending(pc) == Cardinality({u \in Threads : th[u].pc = pc})

CallCreateContainer(t) ==
  /\ Len(heap) + Pending("cc_lock") < MaxContainers
  /\ \E r \in Requests :
       Invoke(t, [Idle EXCEPT !.pc = "cc_lock", !.op = "CreateContainer",
                              !.id = r.id, !.name = r.Name, !.memory = r.MemoryMB])

CallAddProcess(t) ==
  /\ Len(procs) + Pending("ap_lock") < MaxProcs
  /\ \E c \in 1..Len(heap) :
       Invoke(t, [Idle EXCEPT !.pc = "ap_lock", !.op = "AddProcess", !.c = c])

CallStartProcesses(t) ==
  \E c \in 1..Len(heap) :
    Invoke(t, Enter([Idle EXCEPT !.op = "StartProcesses"], "sp_lock", c))

CallStopProcesses(t) ==
  \E c \in 1..Len(heap) :
    Invoke(t, Enter([Idle EXCEPT !.op = "StopProcesses"], "st_lock", c))

CallStartAll(t) == Invoke(t, [Idle EXCEPT !.pc = "sa_lock", !.op = "StartAll"])

CallStopAll(t) == Invoke(t, [Idle EXCEPT !.pc = "so_lock", !.op = "StopAll"])

CallMonitor(t) ==
  \E n \in 0..MaxCycles :
    Invoke(t, [Idle EXCEPT !.pc = "mo_head", !.op = "Monitor", !.cycles = n])

CallSendMessage(t) ==
  \E from \in IDs, to \in IDs, m \in Msgs :
    Invoke(t, [Idle EXCEPT !.pc = "sm_lock", !.op = "SendMessage",
                           !.id = from, !.to = to, !.msg = m])

\* `go func() {...}()` of main: a goroutine runs the resource simulator
CallSimulate(t) ==
  Invoke(t, [Idle EXCEPT !.pc = "si_lock", !.op = "Simulate", !.cycles = MaxSimIters])

\* the caller takes up the returned call's result and is free to call again
Return(t) ==
  /\ th[t].pc = "ret"
  /\ th' = [th EXCEPT ![t] = Idle]
  /\ UNCHANGED <<Containers, kmu, heap, procs, tasks, calls>>

\* ------------------------------------------------------------------ Kernel
\* &Container{ID, Name, MemoryMB, CPULoad: 0, Processes: []*Process{}}
NewContainer(id, name, memory) ==
  [ID |-> id, Name |-> name, MemoryMB |-> memory, CPULoad |-> 0,
   Processes |-> <<>>, mu |-> Free]

\* faulty variant: the registry is replaced by a map holding only the new entry
RegisterAlone(reg, id, c) == [j \in IDs |-> IF j = id THEN c ELSE Nil]

\* k.Containers[id] = c
Register(reg, id, c) == [reg EXCEPT ![id] = c]

\* CreateContainer: the whole body runs under k.mu and touches only the
\* registry and the object it has just allocated.
CreateContainer(t) ==
  /\ th[t].pc = "cc_lock"
  /\ kmu = Free
  /\ LET c == Len(heap) + 1 IN
       /\ heap' = Append(heap, NewContainer(th[t].id, th[t].name, th[t].memory))
       /\ Containers' = Register(Containers, th[t].id, c)
       /\ th' = [th EXCEPT ![t].pc = "ret", ![t].ret = c,
                           ![t].out = Append(@, CreatedLine(th[t].name))]
  /\ UNCHANGED <<kmu, procs, tasks, calls>>

\* faulty variant: only the lookup of fromID decides between the two lines
MessageLineFromOnly(reg, fromID, toID, msg) ==
  IF reg[fromID] # Nil
    THEN Line("message", heap[reg[fromID]].Name,
              IF reg[toID] # Nil THEN heap[reg[toID]].Name ELSE "", msg, 0, 0, 0)
    ELSE FailureLine

\* the observation SendMessage emits for the lookups of fromID and toID
MessageLine(reg, fromID, toID, msg) ==
  IF reg[fromID] # Nil /\ reg[toID] # Nil
    THEN SuccessLine(reg[fromID], reg[toID], msg)
    ELSE FailureLine

\* faulty variant: a delivered message is charged to the destination's memory
SendMessageDelivering(t) ==
  /\ th[t].pc = "sm_lock"
  /\ kmu = Free
  /\ th' = [th EXCEPT ![t].pc = "ret",
                      ![t].out = Append(@, MessageLine(Containers, th[t].id,
                                                       th[t].to, th[t].msg))]
  /\ heap' = IF Containers[th[t].id] # Nil /\ Containers[th[t].to] # Nil
               THEN [heap EXCEPT ![Containers[th[t].to]].MemoryMB = @ + 1]
               ELSE heap
  /\ UNCHANGED <<Containers, kmu, procs, tasks, calls>>

\* SendMessage: both lookups and the one print run under k.mu
SendMessage(t) ==
  /\ th[t].pc = "sm_lock"
  /\ kmu = Free
  /\ th' = [th EXCEPT ![t].pc = "ret",
                      ![t].out = Append(@, MessageLine(Containers, th[t].id,
                                                       th[t].to, th[t].msg))]
  /\ UNCHANGED <<Containers, kmu, heap, procs, tasks, calls>>

\* --------------------------------------------------------------- Container
Lock(c, t) == heap' = [heap EXCEPT ![c].mu = t]

\* faulty variant: the deferred unlock is missing
UnlockLeaked(c) == heap' = heap

Unlock(c) == heap' = [heap EXCEPT ![c].mu = Free]

\* exampleProcess: a new Process value (its Name and Priority are never read
\* by the kernel and are left out)
exampleProcess == [State |-> Running]

\* faulty variant: the new process is put in front of the list
PrependProcess(ps, p) == <<p>> \o ps

\* c.Processes = append(c.Processes, p)
AppendProcess(ps, p) == Append(ps, p)

\* AddProcess: the caller passes a Process nobody else refers to; the body
\* runs under c.mu.
AddProcess(t) ==
  /\ th[t].pc = "ap_lock"
  /\ LET c == th[t].c
         p == Len(procs) + 1
     IN /\ heap[c].mu = Free
        /\ procs' = Append(procs, [exampleProcess EXCEPT !.State = Running])
        /\ tasks' = Append(tasks, 0)
        /\ heap' = [heap EXCEPT ![c].Processes = AppendProcess(@, p)]
        /\ th' = [th EXCEPT ![t].pc = "ret", ![t].p = p]
  /\ UNCHANGED <<Containers, kmu, calls>>

\* where a container method returns to: the loop of StartAll / StopAll that
\* called it, or the caller
After(t) ==
  CASE th[t].op = "StartAll" -> "sa_loop"
    [] th[t].op = "StopAll" -> "so_loop"
    [] OTHER -> "ret"

\* StartProcesses: c.mu.Lock()
StartLock(t) ==
  /\ th[t].pc = "sp_lock"
  /\ heap[th[t].c].mu = Free
  /\ Lock(th[t].c, t)
  /\ th' = [th EXCEPT ![t].pc = "sp_loop", ![t].idx = 1]
  /\ UNCHANGED <<Containers, kmu, procs, tasks, calls>>

\* faulty variant: the test compares with the wrong state
DispatchesStopped(p) == procs[p].State = Stopped

\* faulty variant: a process whose action is in flight is not dispatched again
DispatchesOnce(p) == procs[p].State = Running /\ tasks[p] = 0

\* faulty variant: the test is missing
DispatchesAny(p) == procs[p].State \in {Running, Stopped, Completed}

\* `if p.State == Running`: whether StartProcesses dispatches p
Dispatches(p) == procs[p].State = Running

\* one iteration of the loop: read p.State, `go func(proc)` when Running
StartDispatch(t) ==
  /\ th[t].pc = "sp_loop"
  /\ LET ps == heap[th[t].c].Processes IN
       /\ th[t].idx <= Len(ps)
       /\ tasks' = IF Dispatches(ps[th[t].idx])
                     THEN [tasks EXCEPT ![ps[th[t].idx]] = @ + 1]
                     ELSE tasks
  /\ th' = [th EXCEPT ![t].idx = @ + 1]
  /\ UNCHANGED <<Containers, kmu, heap, procs, calls>>

\* faulty variant: the return waits until the dispatched actions are over
StartUnlockWaiting(t) ==
  /\ th[t].pc = "sp_loop"
  /\ th[t].idx > Len(heap[th[t].c].Processes)
  /\ \A p \in Range(heap[th[t].c].Processes) : tasks[p] = 0
  /\ Unlock(th[t].c)
  /\ th' = [th EXCEPT ![t].pc = After(t)]
  /\ UNCHANGED <<Containers, kmu, procs, tasks, calls>>

\* the loop is over: deferred c.mu.Unlock(), return
StartUnlock(t) ==
  /\ th[t].pc = "sp_loop"
  /\ th[t].idx > Len(heap[th[t].c].Processes)
  /\ Unlock(th[t].c)
  /\ th' = [th EXCEPT ![t].pc = After(t)]
  /\ UNCHANGED <<Containers, kmu, procs, tasks, calls>>

\* faulty variant: the completion is written only over Running
CompleteRunning(ps, p) ==
  IF ps[p].State = Running THEN [ps EXCEPT ![p].State = Completed] ELSE ps

\* the dispatched goroutine: proc.Action() returns, then proc.State =
\* Completed, written without any lock
Complete(ps, p) == [ps EXCEPT ![p].State = Completed]

ActionDone(p) ==
  /\ p \in 1..Len(procs)
  /\ tasks[p] > 0
  /\ tasks' = [tasks EXCEPT ![p] = @ - 1]
  /\ procs' = Complete(procs, p)
  /\ UNCHANGED <<Containers, kmu, heap, th, calls>>

\* the dispatched goroutine: proc.Action() panics.  Nothing in the goroutine
\* (or anywhere else) recovers, so the Go runtime ends the whole program:
\* every goroutine stops where it is and no action is left running.
ActionPanic(p) ==
  /\ p \in 1..Len(procs)
  /\ tasks[p] > 0
  /\ th' = [t \in Threads |-> [th[t] EXCEPT !.pc = "dead"]]
  /\ tasks' = [q \in 1..Len(tasks) |-> 0]
  /\ calls' = 0
  /\ UNCHANGED <<Containers, kmu, heap, procs>>

\* StopProcesses: c.mu.Lock()
StopLock(t) ==
  /\ th[t].pc = "st_lock"
  /\ heap[th[t].c].mu = Free
  /\ Lock(th[t].c, t)
  /\ th' = [th EXCEPT ![t].pc = "st_loop", ![t].idx = 1]
  /\ UNCHANGED <<Containers, kmu, procs, tasks, calls>>

\* `if p.State == Running`: the read of one iteration.  The write of the
\* dispatched goroutine is not ordered with it, so the read and the write
\* that follows it are two steps.
StopExamine(t) ==
  /\ th[t].pc = "st_loop"
  /\ LET ps == heap[th[t].c].Processes IN
       /\ th[t].idx <= Len(ps)
       /\ th' = IF procs[ps[th[t].idx]].State = Running
                  THEN [th EXCEPT ![t].pc = "st_write", ![t].p = ps[th[t].idx]]
                  ELSE [th EXCEPT ![t].idx = @ + 1]
  /\ UNCHANGED <<Containers, kmu, heap, procs, tasks, calls>>

\* p.State = Stopped
StopWrite(t) ==
  /\ th[t].pc = "st_write"
  /\ procs' = [procs EXCEPT ![th[t].p].State = Stopped]
  /\ th' = [th EXCEPT ![t].pc = "st_loop", ![t].idx = @ + 1, ![t].p = Nil,
                      ![t].wrote = @ \cup {th[t].p}]
  /\ UNCHANGED <<Containers, kmu, heap, tasks, calls>>

StopUnlock(t) ==
  /\ th[t].pc = "st_loop"
  /\ th[t].idx > Len(heap[th[t].c].Processes)
  /\ Unlock(th[t].c)
  /\ th' = [th EXCEPT ![t].pc = After(t)]
  /\ UNCHANGED <<Containers, kmu, procs, tasks, calls>>

\* ------------------------------------------------- StartAll, StopAll, Monitor
\* k.mu.Lock(); `range k.Containers` visits every entry once, in any order
KernelLock(t, from, to) ==
  /\ th[t].pc = from
  /\ kmu = Free
  /\ kmu' = t
  /\ th' = [th EXCEPT ![t].pc = to, ![t].iter = Registered(Containers)]
  /\ UNCHANGED <<Containers, heap, procs, tasks, calls>>

\* faulty variant: the deferred k.mu.Unlock() is missing
KernelUnlockLeaked(t, from) ==
  /\ th[t].pc = from
  /\ th[t].iter = {}
  /\ kmu' = kmu
  /\ UNCHANGED <<Containers, heap, procs, tasks, calls>>

KernelUnlock(t, from) ==
  /\ th[t].pc = from
  /\ th[t].iter = {}
  /\ kmu' = Free
  /\ UNCHANGED <<Containers, heap, procs, tasks, calls>>

StartAllLock(t) == KernelLock(t, "sa_lock", "sa_loop")

StartAllNext(t) ==
  /\ th[t].pc = "sa_loop"
  /\ \E c \in th[t].iter :
       th' = [th EXCEPT ![t] =
                Enter([@ EXCEPT !.iter = @ \ {c},
                                !.out = Append(@, StartingLine(heap[c].Name))],
                      "sp_lock", c)]
  /\ UNCHANGED <<Containers, kmu, heap, procs, tasks, calls>>

StartAllUnlock(t) ==
  /\ KernelUnlock(t, "sa_loop")
  /\ th' = [th EXCEPT ![t].pc = "ret"]

StopAllLock(t) == KernelLock(t, "so_lock", "so_loop")

StopAllNext(t) ==
  /\ th[t].pc = "so_loop"
  /\ \E c \in th[t].iter :
       th' = [th EXCEPT ![t] =
                Enter([@ EXCEPT !.iter = @ \ {c},
                                !.out = Append(@, StoppingLine(heap[c].Name))],
                      "st_lock", c)]
  /\ UNCHANGED <<Containers, kmu, heap, procs, tasks, calls>>

StopAllUnlock(t) ==
  /\ KernelUnlock(t, "so_loop")
  /\ th' = [th EXCEPT ![t].pc = "ret"]

\* faulty variant: the loop runs once more
MonitorContinuesInclusive(i, cycles) == i <= cycles

\* the loop condition `i < cycles`
MonitorContinues(i, cycles) == i < cycles

\* Monitor: the first test of `i < cycles` and the header of the first cycle,
\* printed before k.mu is taken
MonitorHeader(t) ==
  /\ th[t].pc = "mo_head"
  /\ MonitorContinues(th[t].i, th[t].cycles)
  /\ th' = [th EXCEPT ![t].pc = "mo_lock", ![t].out = Append(@, HeaderLine)]
  /\ UNCHANGED <<Containers, kmu, heap, procs, tasks, calls>>

MonitorLock(t) == KernelLock(t, "mo_lock", "mo_row")

\* the inner loop over c.Processes: the number of processes read as Running
Active(c) == Cardinality({j \in 1..Len(heap[c].Processes) :
                            procs[heap[c].Processes[j]].State = Running})

\* one row: the fields of one container, read under k.mu only
MonitorRow(t) ==
  /\ th[t].pc = "mo_row"
  /\ \E c \in th[t].iter :
       th' = [th EXCEPT ![t].iter = @ \ {c},
                        ![t].out = Append(@, RowLine(c, Active(c)))]
  /\ UNCHANGED <<Containers, kmu, heap, procs, tasks, calls>>

\* k.mu.Unlock(); time.Sleep(interval); i++; then `i < cycles` again, which
\* reads only locals: the next header, or the return
MonitorUnlock(t) ==
  /\ KernelUnlock(t, "mo_row")
  /\ th' = IF MonitorContinues(th[t].i + 1, th[t].cycles)
             THEN [th EXCEPT ![t].pc = "mo_lock", ![t].i = @ + 1,
                             ![t].out = Append(@, HeaderLine)]
             ELSE [th EXCEPT ![t].pc = "ret", ![t].i = @ + 1]

\* `i < cycles` is false at once: Monitor returns without a cycle
MonitorReturn(t) ==
  /\ th[t].pc = "mo_head"
  /\ ~MonitorContinues(th[t].i, th[t].cycles)
  /\ th' = [th EXCEPT ![t].pc = "ret"]
  /\ UNCHANGED <<Containers, kmu, heap, procs, tasks, calls>>

\* ------------------------------------------------------- resource simulator
\* c.CPULoad = rand.Float64() * 100; c.MemoryMB = c.MemoryMB + rand.Intn(50) - 25
Perturb(c, s) == [c EXCEPT !.CPULoad = s.cpu, !.MemoryMB = @ + s.jitter]

\* One iteration of the loop: k.mu.Lock(), the two writes for every registered
\* container, k.mu.Unlock(), Sleep, i++.  The fields written are read and
\* written under k.mu only (here and in Monitor), and no container lock is
\* taken, so the iteration is one step.  After the last iteration the
\* goroutine ends: nothing waits for it and it makes no further call.
Simulate(t) ==
  /\ th[t].pc = "si_lock"
  /\ kmu = Free
  /\ \E f \in [Registered(Containers) -> Samples] :
       heap' = [c \in 1..Len(heap) |->
                  IF c \in Registered(Containers) THEN Perturb(heap[c], f[c])
                                                  ELSE heap[c]]
  /\ th' = [th EXCEPT ![t].i = @ + 1,
                      ![t].pc = IF th[t].i + 1 < th[t].cycles THEN "si_lock" ELSE "done"]
  /\ UNCHANGED <<Containers, kmu, procs, tasks, calls>>

\* ------------------------------------------------------------ specification
Call(t) ==
  \/ CallCreateContainer(t)
  \/ CallAddProcess(t)
  \/ CallStartProcesses(t)
  \/ CallStopProcesses(t)
  \/ CallStartAll(t)
  \/ CallStopAll(t)
  \/ CallMonitor(t)
  \/ CallSendMessage(t)
  \/ CallSimulate(t)

\* the steps of a goroutine inside a call
Step(t) ==
  \/ CreateContainer(t)
  \/ SendMessage(t)
  \/ AddProcess(t)
  \/ StartLock(t) \/ StartDispatch(t) \/ StartUnlock(t)
  \/ StopLock(t) \/ StopExamine(t) \/ StopWrite(t) \/ StopUnlock(t)
  \/ StartAllLock(t) \/ StartAllNext(t) \/ StartAllUnlock(t)
  \/ StopAllLock(t) \/ StopAllNext(t) \/ StopAllUnlock(t)
  \/ MonitorHeader(t) \/ MonitorLock(t) \/ MonitorRow(t)
  \/ MonitorUnlock(t) \/ MonitorReturn(t)
  \/ Simulate(t)
  \/ Return(t)

Next ==
  \/ \E t \in Threads : Call(t)
  \/ \E t \in Threads : Step(t)
  \/ \E p \in 1..MaxProcs : ActionDone(p)

Spec == Init /\ [][Next]_vars

\* the same program with one more call, enough for a second StopProcesses
\* call to follow CreateContainer, AddProcess, StartProcesses and a first one
DeepInit == NewKernel /\ calls = MaxDeepCalls

DeepSpec == DeepInit /\ [][Next]_vars

\* The Go scheduler runs every runnable goroutine: a caller inside a call
\* takes its next step (the call budget is finite, so a lock it waits for
\* stays free in the end), and an action that terminates is followed by its
\* completion write.  Whether a caller calls again is left open.
\* the program with processes whose action may fail
FailNext == Next \/ \E p \in 1..MaxProcs : ActionPanic(p)

FailSpec == Init /\ [][FailNext]_vars

\* fairness of the callers' steps only: a dispatched action may run for ever
FairSpec == Spec /\ \A t \in Threads : WF_vars(Step(t))

LiveSpec ==
  /\ Spec
  /\ \A t \in Threads : WF_vars(Step(t))
  /\ \A p \in 1..MaxProcs : WF_vars(ActionDone(p))

\* ------------------------------------------------------------------ claims
\* the step by which goroutine t passes from location `from` to location `to`
Moves(t, from, to) == th[t].pc = from /\ th'[t].pc = to

\* C1 (as claimed): a Process's state only ever changes Running->Completed or
\* Running->Stopped; a Stopped or Completed Process never changes state again.
C1_TerminalStates ==
  [][\A p \in 1..Len(procs) :
        procs'[p].State # procs[p].State
          => /\ procs[p].State = Running
             /\ procs'[p].State \in {Stopped, Completed}]_vars

\* C2: every Process that was Running when a StartProcesses call on its
\* container began is eventually Completed, unless StopProcesses sets it to
\* Stopped first (a Process that leaves Running is Completed or was stopped
\* before its completion write).
C2_StartedCompletes ==
  \A t \in Threads : \A p \in 1..MaxProcs :
    (th[t].pc = "sp_lock" /\ p \in th[t].run)
      ~> (p <= Len(procs) /\ procs[p].State \in {Completed, Stopped})

\* C2 witness: a StartProcesses call has returned and a Process that was
\* Running when it began is Completed, with no action left in flight.
C2_Witness ==
  \E t \in Threads : \E p \in th[t].run :
    /\ th[t].op = "StartProcesses" /\ th[t].pc = "ret"
    /\ procs[p].State = Completed /\ tasks[p] = 0

\* C3 (as claimed): a Process that is Completed when a StopProcesses call
\* begins is still Completed when that call returns.
C3_CompletedSurvivesStop ==
  [][\A t \in Threads :
        (th[t].pc = "st_loop" /\ th'[t].pc \in {"ret", "so_loop"})
          => \A p \in th[t].comp \cap Range(heap[th[t].c].Processes) :
                procs'[p].State = Completed]_vars

\* C4 (as claimed): when StopAll returns and no AddProcess or CreateContainer
\* overlapped it, no Process of a registered container is Running, and every
\* Process that was Running when its container was visited is Stopped.
C4_StopAllStopsRunning ==
  [][\A t \in Threads :
        (th[t].op = "StopAll" /\ Moves(t, "so_loop", "ret") /\ ~th'[t].dirty)
          => \A c \in Registered(Containers') :
               \A p \in Range(heap'[c].Processes) :
                  /\ procs'[p].State # Running
                  /\ p \in th[t].run => procs'[p].State = Stopped]_vars

\* C5 (as claimed): CreateContainer with an id that is already registered
\* fails (returns no Container) and leaves the registry unchanged.
C5_DuplicateRejected ==
  [][\A t \in Threads :
        (Moves(t, "cc_lock", "ret") /\ Containers[th[t].id] # Nil)
          => /\ Containers' = Containers
             /\ th'[t].ret = Nil]_vars

\* registered ids map to pairwise distinct Containers, each keyed by its own id
C6_Registry ==
  \A i \in IDs : Containers[i] # Nil =>
    /\ heap[Containers[i]].ID = i
    /\ \A j \in IDs \ {i} : Containers[j] # Containers[i]

\* a CreateContainer call whose id is not yet registered registers, under that
\* id and no other, the new Container it returns: cpuLoad 0, the supplied
\* memory, no processes
C6_Creates ==
  \A t \in Threads :
    (Moves(t, "cc_lock", "ret") /\ Containers[th[t].id] = Nil)
      => LET c == th'[t].ret IN
           /\ c \in 1..Len(heap') /\ c \notin 1..Len(heap)
           /\ Containers'[th[t].id] = c
           /\ \A j \in IDs \ {th[t].id} : Containers'[j] = Containers[j]
           /\ heap'[c].CPULoad = 0
           /\ heap'[c].MemoryMB = th[t].memory
           /\ heap'[c].Processes = <<>>

\* the registry changes by no step but the one of CreateContainer
C6_OnlyCreates ==
  Containers' # Containers => \E t \in Threads : Moves(t, "cc_lock", "ret")

\* a step of AddProcess or StopProcesses on one Container changes no other
\* Container's process list and no state of a process of another Container
C6_Independent ==
  \A t \in Threads :
    \/ Moves(t, "ap_lock", "ret")
    \/ (th[t].pc \in {"st_lock", "st_loop", "st_write"} /\ th'[t] # th[t])
    => \A d \in (1..Len(heap)) \ {th[t].c} :
         /\ heap'[d].Processes = heap[d].Processes
         /\ \A p \in Range(heap[d].Processes) : procs'[p] = procs[p]

\* C6: after CreateContainer calls with distinct ids the registry maps each id
\* to the Container returned for it, the Containers are pairwise distinct and
\* have cpuLoad 0, the supplied memory and an empty process list, and a later
\* AddProcess or StopProcesses on one of them changes no other Container's
\* process list or process states.
C6_DistinctContainers ==
  /\ []C6_Registry
  /\ [][C6_Creates /\ C6_OnlyCreates /\ C6_Independent]_vars

\* C6 witness: both ids are registered, and a StopProcesses call on one
\* Container has returned with its process Stopped while the other Container,
\* created with another memory size, still has its empty process list.
C6_Witness ==
  \E t \in Threads :
    /\ th[t].op = "StopProcesses" /\ th[t].pc = "ret"
    /\ \A i \in IDs : Containers[i] # Nil
    /\ th[t].c \in Registered(Containers)
    /\ \E p \in Range(heap[th[t].c].Processes) : procs[p].State = Stopped
    /\ \E d \in Registered(Containers) \ {th[t].c} :
         /\ heap[d].Processes = <<>>
         /\ heap[d].MemoryMB # heap[th[t].c].MemoryMB

\* C7: when AddProcess(p) returns, p is Running and is the last element of
\* the container's process list, and the processes added before are still
\* there, in their order.
C7_AddProcessAppends ==
  [][\A t \in Threads :
        Moves(t, "ap_lock", "ret")
          => LET ps == heap'[th[t].c].Processes
                 p == th'[t].p
             IN /\ Len(ps) = Len(heap[th[t].c].Processes) + 1
                /\ ps[Len(ps)] = p
                /\ procs'[p].State = Running
                /\ SubSeq(ps, 1, Len(ps) - 1) = heap[th[t].c].Processes
                /\ \A q \in Range(heap[th[t].c].Processes) : q # p]_vars

\* C7 witness: AddProcess has returned with a second process appended while
\* another goroutine is inside StartProcesses or StopProcesses on the same
\* container.
C7_Witness ==
  \E t \in Threads : \E u \in Threads \ {t} :
    /\ th[t].op = "AddProcess" /\ th[t].pc = "ret"
    /\ Len(heap[th[t].c].Processes) = 2
    /\ heap[th[t].c].Processes[2] = th[t].p
    /\ InCall(u, {"StartProcesses", "StopProcesses"})
    /\ th[u].c = th[t].c

\* a SendMessage call has emitted nothing before its print, one line after it
C8_Silent ==
  \A t \in Threads :
    th[t].op = "SendMessage" =>
      /\ th[t].pc = "sm_lock" => th[t].out = <<>>
      /\ th[t].pc = "ret" => Len(th[t].out) = 1

\* the line printed: success with both container names when both ids are
\* registered at that moment, failure otherwise
C8_Prints ==
  \A t \in Threads :
    Moves(t, "sm_lock", "ret") =>
      /\ Len(th'[t].out) = 1
      /\ LET l == th'[t].out[1]
             from == Containers[th[t].id]
             to == Containers[th[t].to]
         IN IF from # Nil /\ to # Nil
              THEN /\ l.kind = "message"
                   /\ l.name = heap[from].Name
                   /\ l.to = heap[to].Name
                   /\ l.msg = th[t].msg
              ELSE l.kind = "error"

\* C8: a SendMessage call emits exactly one line: the success line naming the
\* source and destination containers when both ids are registered, the
\* failure line when either is absent.
C8_OneObservation == []C8_Silent /\ [][C8_Prints]_vars

\* C8 witness: one call has printed the success line for two different
\* registered containers, another the failure line for an absent id.
C8_Witness ==
  \E t \in Threads : \E u \in Threads \ {t} :
    /\ th[t].op = "SendMessage" /\ th[t].pc = "ret"
    /\ th[t].out = <<Line("message", "WebServer", "Database", "ping", 0, 0, 0)>>
    /\ th[u].op = "SendMessage" /\ th[u].pc = "ret"
    /\ th[u].out = <<FailureLine>>

\* C9: the step of SendMessage changes neither the registry, nor any
\* container's fields or process list, nor any process's state.
C9_SendMessageFrame ==
  [][\A t \in Threads :
        Moves(t, "sm_lock", "ret")
          => /\ Containers' = Containers
             /\ heap' = heap
             /\ procs' = procs
             /\ tasks' = tasks]_vars

\* C9 witness: a SendMessage between two registered containers has returned
\* while a container holds a process.
C9_Witness ==
  \E t \in Threads :
    /\ th[t].op = "SendMessage" /\ th[t].pc = "ret"
    /\ th[t].out[1].kind = "message"
    /\ th[t].id # th[t].to
    /\ \E c \in Registered(Containers) : heap[c].Processes # <<>>

\* the lines of `out` of one kind
Count(out, kind) == Cardinality({i \in 1..Len(out) : out[i].kind = kind})

\* the rows of the last block of `out`: the lines after the last header
LastBlock(out) ==
  LET h == CHOOSE i \in 1..Len(out) :
             /\ out[i].kind = "header"
             /\ \A j \in (i + 1)..Len(out) : out[j].kind # "header"
  IN SubSeq(out, h + 1, Len(out))

\* C10: Monitor emits headers and rows only, one header per cycle begun, never
\* more than `cycles` and exactly `cycles` when it returns; when a block is
\* complete (all rows printed, k.mu still held) it holds exactly one row for
\* every container registered at that moment and no other row.
C10_MonitorBlocks ==
  \A t \in Threads :
    th[t].op = "Monitor" =>
      /\ \A i \in 1..Len(th[t].out) : th[t].out[i].kind \in {"header", "row"}
      /\ Count(th[t].out, "header") <= th[t].cycles
      /\ th[t].pc = "ret" => Count(th[t].out, "header") = th[t].cycles
      /\ th[t].pc = "mo_head" => th[t].out = <<>>
      /\ th[t].pc \in {"mo_lock", "mo_row"} => Count(th[t].out, "header") = th[t].i + 1
      /\ (th[t].pc = "mo_row" /\ th[t].iter = {}) =>
           LET rows == LastBlock(th[t].out) IN
             /\ Len(rows) = Cardinality(Registered(Containers))
             /\ {rows[i].name : i \in 1..Len(rows)}
                  = {heap[c].Name : c \in Registered(Containers)}
             /\ \A i, j \in 1..Len(rows) : rows[i].name = rows[j].name => i = j

\* C10 witness: Monitor(_, 2) has returned with two blocks, the first with one
\* row and the second with two, a container having been created in between.
C10_Witness ==
  \E t \in Threads :
    /\ th[t].op = "Monitor" /\ th[t].pc = "ret" /\ th[t].cycles = 2
    /\ Len(th[t].out) = 5
    /\ th[t].out[1].kind = "header" /\ th[t].out[2].kind = "row"
    /\ th[t].out[3].kind = "header" /\ th[t].out[4].kind = "row"
    /\ th[t].out[5].kind = "row"

\* ------------------------------------------------------------------ locking
\* the container locks goroutine t holds
Held(t) == {c \in 1..Len(heap) : heap[c].mu = t}

\* the locations where a goroutine is about to call k.mu.Lock()
KernelAcquire == {"cc_lock", "sm_lock", "sa_lock", "so_lock", "mo_lock", "si_lock"}

\* the locations where a goroutine is about to call c.mu.Lock()
ContainerAcquire == {"ap_lock", "sp_lock", "st_lock"}

\* C11: the lock order is Kernel outer, Container inner: a goroutine about to
\* acquire the Kernel lock holds no Container lock, a goroutine about to
\* acquire a Container lock holds no other Container lock, and no goroutine
\* holds two Container locks at once.  (The dispatched goroutines take no lock
\* at all, and the resource simulator takes the Kernel lock only.)
C11_LockOrder ==
  \A t \in Threads :
    /\ th[t].pc \in KernelAcquire => Held(t) = {}
    /\ th[t].pc \in ContainerAcquire => Held(t) = {}
    /\ Cardinality(Held(t)) <= 1

\* C11 witness: StartAll or StopAll holds the Kernel lock and, inside it, the
\* lock of one of two registered containers.
C11_Witness ==
  \E t \in Threads :
    /\ kmu = t
    /\ Cardinality(Held(t)) = 1
    /\ Cardinality(Registered(Containers)) = 2

\* C12: under fair scheduling of the callers, whether or not any dispatched
\* action ever terminates, every invocation of CreateContainer, AddProcess,
\* StartProcesses, StopProcesses, StartAll, StopAll, SendMessage and Monitor
\* eventually returns (and the resource simulator's goroutine ends), and
\* Monitor has then run exactly `cycles` iterations.
C12_EveryCallReturns ==
  /\ \A t \in Threads :
       (th[t].pc \notin {"idle", "ret", "done"}) ~> (th[t].pc \in {"ret", "done"})
  /\ [](\A t \in Threads :
          (th[t].op = "Monitor" /\ th[t].pc = "ret") => th[t].i = th[t].cycles)

\* C12 witness: a caller waits for the Kernel lock while another goroutine
\* holds it together with a Container lock and a dispatched action is still
\* running.
C12_Witness ==
  \E t, u \in Threads :
    /\ th[t].pc \in KernelAcquire
    /\ kmu = u /\ Held(u) # {}
    /\ \E p \in 1..Len(tasks) : tasks[p] > 0

\* the containers whose process list holds p
Owner(p) == {c \in 1..Len(heap) : p \in Range(heap[c].Processes)}

\* C13: a dispatched goroutine performs its completion write only while it
\* holds the owning Container's lock, so the write never lands while another
\* goroutine is inside a critical section of that container (the goroutine
\* holds no lock while its action runs).
C13_CompletionUnderLock ==
  [][\A p \in 1..Len(procs) :
       tasks'[p] < tasks[p] => \A c \in Owner(p) : heap[c].mu = Free]_vars

\* C14: every read or write of a Container's process list, process states,
\* MemoryMB or CPULoad is made by a goroutine holding that Container's own
\* lock; in particular Monitor reads the fields of a row, and the resource
\* simulator writes CPULoad and MemoryMB, with the Container lock held.
C14_AccessUnderLock ==
  [][\A t \in Threads :
       /\ (th[t].pc = "mo_row" /\ th'[t].iter # th[t].iter) =>
            \A c \in th[t].iter \ th'[t].iter : heap[c].mu = t
       /\ (th[t].pc = "si_lock" /\ th'[t] # th[t]) =>
            \A c \in Registered(Containers) : heap[c].mu = t]_vars

\* C15: when a Process's action fails with an unrecoverable error only the
\* goroutine running that action ends: the callers (Monitor, StopAll, ...) are
\* not brought down with it and go on to run.
C15_OnlyTheTaskEnds == \A t \in Threads : th[t].pc # "dead"

\* the locations inside StartProcesses and StartAll
Starting == {"sp_lock", "sp_loop", "sa_lock", "sa_loop"}

\* C16: StartProcesses and StartAll do not wait for the actions they
\* dispatch: at the end of its loop StartProcesses can return at once however
\* many dispatched actions are still running, and no step of StartProcesses
\* or StartAll changes the state of any Process.
C16_StartDoesNotWait ==
  /\ [](\A t \in Threads :
          (th[t].pc = "sp_loop" /\ th[t].idx > Len(heap[th[t].c].Processes))
            => ENABLED StartUnlock(t))
  /\ [][\A t \in Threads :
          (th[t].pc \in Starting /\ th'[t] # th[t]) => procs' = procs]_vars

\* C16 witness: StartAll has returned and every lock is free, while both
\* processes it dispatched are still Running with their action in flight.
C16_Witness ==
  \E t \in Threads :
    /\ th[t].op = "StartAll" /\ th[t].pc = "ret"
    /\ kmu = Free
    /\ \A c \in 1..Len(heap) : heap[c].mu = Free
    /\ Cardinality(th[t].run) = 2
    /\ \A p \in th[t].run : tasks[p] > 0 /\ procs[p].State = Running

\* the locations inside StopProcesses and StopAll
Stopping == {"st_lock", "st_loop", "st_write", "so_lock", "so_loop"}

\* C17: the stop/complete race is last-write-wins: no step of StopProcesses or
\* StopAll interrupts or cancels an action in flight, and when the action
\* returns its goroutine's write leaves the Process Completed whatever its
\* state was, Stopped included.
C17_LastWriteWins ==
  /\ [][\A t \in Threads :
          (th[t].pc \in Stopping /\ th'[t] # th[t]) => tasks' = tasks]_vars
  /\ [][\A p \in 1..Len(procs) :
          tasks'[p] < tasks[p] => procs'[p].State = Completed]_vars

\* C17 witness: StopAll has returned and a process that it set Stopped is
\* Completed, its action having returned afterwards.
C17_Witness ==
  \E t \in Threads :
    /\ th[t].op = "StopAll" /\ th[t].pc = "ret"
    /\ \E p \in th[t].wrote : procs[p].State = Completed /\ tasks[p] = 0

\* what Monitor reads of container c: MemoryMB, CPULoad and the states of the
\* processes of its list
Fields(c) ==
  <<heap[c].MemoryMB, heap[c].CPULoad,
    [j \in 1..Len(heap[c].Processes) |-> procs[heap[c].Processes[j]].State]>>

\* Monitor has read the first row of a cycle and not yet the last
MidCycle(t) ==
  /\ th[t].pc = "mo_row"
  /\ th[t].iter # {}
  /\ Len(LastBlock(th[t].out)) > 0

\* C18: each Monitor cycle is one atomic snapshot: between the first and the
\* last read of a cycle no registered container's MemoryMB, CPULoad, process
\* list or process state changes.
C18_AtomicSnapshot ==
  [][\A t \in Threads :
       MidCycle(t) => \A c \in Registered(Containers) : Fields(c)' = Fields(c)]_vars

\* C19: StartProcesses dispatches an action only for a process that is Running
\* when it examines it, and a process that has left Running never returns to
\* it; when StopAll returns (no AddProcess or CreateContainer having overlapped
\* it) no registered container has a Running process, so a StartAll that
\* follows starts no action at all.
C19_DispatchOnlyRunning ==
  /\ [][\A p \in 1..Len(procs) :
          /\ tasks'[p] > tasks[p] => procs[p].State = Running
          /\ procs[p].State # Running => procs'[p].State # Running]_vars
  /\ [][\A t \in Threads :
          (Moves(t, "so_loop", "ret") /\ ~th[t].dirty) =>
            \A c \in Registered(Containers) : InState(c, Running)' = {}]_vars

\* C19 witness: StopAll has set a process Stopped; the StartAll that came after
\* it has returned, having found no process Running, and no action is running.
C19_Witness ==
  \E t, u \in Threads :
    /\ th[u].op = "StopAll" /\ th[u].pc = "ret" /\ th[u].wrote # {}
    /\ th[t].op = "StartAll" /\ th[t].pc = "ret" /\ th[t].run = {}
    /\ \A p \in 1..Len(procs) : procs[p].State = Stopped /\ tasks[p] = 0

\* C20: dispatch is not idempotent: every time StartProcesses examines a
\* process that is Running it starts one more execution of its action, whether
\* or not earlier executions are still in flight.
C20_DispatchNotIdempotent ==
  [][\A t \in Threads :
       LET ps == heap[th[t].c].Processes IN
         (/\ th[t].pc = "sp_loop" /\ th[t].idx <= Len(ps)
          /\ th'[t].idx = th[t].idx + 1
          /\ procs[ps[th[t].idx]].State = Running)
           => tasks'[ps[th[t].idx]] = tasks[ps[th[t].idx]] + 1]_vars

\* C20 witness: a Running process has two executions of its action in flight,
\* each of which will write Completed.
C20_Witness ==
  \E p \in 1..Len(procs) : tasks[p] = 2 /\ procs[p].State = Running

====
